---- MODULE Spec2Model ----
(***************************************************************************)
(* A model of the bcache formatting tool (make-bcache: main, write_sb,     *)
(* reset_backing_sb, hatoi, hatoi_validate) and of the topology resolver   *)
(* of bcache-check (get_parent_device).                                    *)
(*                                                                         *)
(* A device is modelled by the regions the tool reads and writes: the      *)
(* header region [0, SB_START) (its first ten bytes and the rest), the     *)
(* superblock slots at SB_OFFSET(0..BDEV_SB_NUM_MAX-1), the range of the   *)
(* journal buckets zeroed last, and what the environment reports about it  *)
(* (capacity, logical block size, the answer of the blkid probe).          *)
(***************************************************************************)
EXTENDS Integers, Sequences, FiniteSets, TLC

VARIABLES
    dev,        \* device id -> contents of the device
    used,       \* the devices that exist in this run of the model
    pc,         \* position of the tool's process
    par,        \* main's locals after option parsing (the arguments of write_sb)
    queue,      \* devices still to be formatted, the head being formatted
    sb,         \* write_sb's / reset_backing_sb's local struct cache_sb
    idx,        \* write_sb's loop variable i of the secondary copies
    err,        \* why the process exited ("none" while it runs or returned 0)
    pre,        \* the devices as they were when the process started
    runs,       \* number of invocations so far
    hin,        \* hatoi_validate: the argument string
    hout,       \* hatoi_validate: the outcome
    gdev,       \* get_parent_device: the device name
    gfs,        \* get_parent_device: the paths that exist under /sys/block
    gout        \* get_parent_device: the outcome

vars == <<dev, used, pc, par, queue, sb, idx, err, pre, runs, hin, hout, gdev, gfs, gout>>
mainVars == <<dev, used, pc, par, queue, sb, idx, err, pre, runs>>
hatoiVars == <<hin, hout>>
parentVars == <<gdev, gfs, gout>>

(***************************************************************************)
(* Bounds of the model.                                                    *)
(***************************************************************************)
MaxRuns == 2          \* invocations of the tool on a single device
MaxBatchRuns == 1     \* invocations of the tool over two devices
MaxNameLen == 3       \* length of the generated device names
MaxExp == 21          \* hatoi inputs are at most 2^MaxExp before the suffix

(***************************************************************************)
(* Arithmetic helpers.                                                     *)
(***************************************************************************)
RECURSIVE Pow2(_)
Pow2(n) == IF n = 0 THEN 1 ELSE 2 * Pow2(n - 1)

Min2(a, b) == IF a < b THEN a ELSE b
Max2(a, b) == IF a > b THEN a ELSE b

Digits == <<"0", "1", "2", "3", "4", "5", "6", "7", "8", "9">>
IsDigit(c) == \E k \in 1..10 : Digits[k] = c
DigitVal(c) == (CHOOSE k \in 1..10 : Digits[k] = c) - 1

\* The decimal text of a natural number (what a user types).
RECURSIVE Decimal(_)
Decimal(n) == IF n < 10 THEN <<Digits[n + 1]>>
              ELSE Decimal(n \div 10) \o <<Digits[(n % 10) + 1]>>

(***************************************************************************)
(* 64-bit values as sequences of 64 bits, least significant first: the     *)
(* byte counts hatoi computes exceed the integers of the model checker.    *)
(***************************************************************************)
W64 == 64
Zero64 == [k \in 1..W64 |-> 0]
RECURSIVE BitsFrom(_, _)
BitsFrom(n, len) == IF len = 0 THEN <<>> ELSE <<n % 2>> \o BitsFrom(n \div 2, len - 1)
ToBits(n) == BitsFrom(n, W64)
\* i * 1024 ^ levels, truncated to 64 bits
Shl(b, k) == [j \in 1..W64 |-> IF j <= k THEN 0 ELSE b[j - k]]
\* v / 2^k
Shr(b, k) == [j \in 1..W64 |-> IF j + k <= W64 THEN b[j + k] ELSE 0]
\* v - 1 modulo 2^64: the bits up to and including the lowest set bit flip
LowestSet(b) == IF \E j \in 1..W64 : b[j] = 1
                THEN CHOOSE j \in 1..W64 : b[j] = 1 /\ \A k \in 1..(j - 1) : b[k] = 0
                ELSE W64
Dec64(b) == LET l == LowestSet(b)
            IN  [j \in 1..W64 |-> IF j <= l THEN 1 - b[j] ELSE b[j]]
\* two's complement negation modulo 2^64
Neg64(b) == IF b = Zero64 THEN b
            ELSE LET l == LowestSet(b)
                 IN  [j \in 1..W64 |-> IF j <= l THEN b[j] ELSE 1 - b[j]]
And64(a, b) == [j \in 1..W64 |-> a[j] * b[j]]
\* the value of the low 16 bits, and whether anything lies above them
RECURSIVE BitsVal(_, _)
BitsVal(b, n) == IF n = 0 THEN 0 ELSE b[n] * Pow2(n - 1) + BitsVal(b, n - 1)
USHRT_MAX == 65535
Above16(b) == \E j \in 17..W64 : b[j] = 1

(***************************************************************************)
(* hatoi and hatoi_validate.                                               *)
(***************************************************************************)
\* strtoll(s, &e, 10): an optional sign, the leading digits, and the rest.
Unsigned(s) == IF s # <<>> /\ s[1] = "-" THEN Tail(s) ELSE s
RECURSIVE DigitRun(_)
DigitRun(s) == IF s # <<>> /\ IsDigit(s[1]) THEN 1 + DigitRun(Tail(s)) ELSE 0
RECURSIVE ParseNat(_, _)
ParseNat(s, n) == IF n = 0 THEN 0 ELSE ParseNat(s, n - 1) * 10 + DigitVal(s[n])

strtoll(s) ==
    LET u == Unsigned(s)
        n == DigitRun(u)
    IN  IF n = 0 THEN [neg |-> FALSE, i |-> 0, e |-> s]
        ELSE [neg |-> (u # s), i |-> ParseNat(u, n), e |-> SubSeq(u, n + 1, Len(u))]

\* The number of times the switch multiplies by 1024 (the cases fall through).
SuffixLevels(e) ==
    IF e = <<>> THEN 0
    ELSE CASE e[1] \in {"t", "T"} -> 4
           [] e[1] \in {"g", "G"} -> 3
           [] e[1] \in {"m", "M"} -> 2
           [] e[1] \in {"k", "K"} -> 1
           [] OTHER -> 0

hatoi(s) ==
    LET r == strtoll(s)
        v == Shl(ToBits(r.i), 10 * SuffixLevels(r.e))
    IN  IF r.neg THEN Neg64(v) ELSE v

NotPow2 == "must be a power of two"
TooLarge == "too large"
TooSmall == "too small"

hatoi_validate_nozero(s) ==
    LET v == hatoi(s)
        w == Shr(v, 9)
    IN  IF And64(v, Dec64(v)) # Zero64 THEN [ok |-> FALSE, msg |-> NotPow2, v |-> 0]
        ELSE IF Above16(w) THEN [ok |-> FALSE, msg |-> TooLarge, v |-> 0]
        ELSE [ok |-> TRUE, msg |-> "", v |-> BitsVal(w, 16)]

hatoi_validate(s) ==
    LET v == hatoi(s)
        w == Shr(v, 9)
    IN  IF And64(v, Dec64(v)) # Zero64 THEN [ok |-> FALSE, msg |-> NotPow2, v |-> 0]
        ELSE IF Above16(w) THEN [ok |-> FALSE, msg |-> TooLarge, v |-> 0]
        ELSE IF w = Zero64 THEN [ok |-> FALSE, msg |-> TooSmall, v |-> 0]
        ELSE [ok |-> TRUE, msg |-> "", v |-> BitsVal(w, 16)]

(***************************************************************************)
(* get_parent_device (bcache-check).  Names and paths are sequences of     *)
(* characters; the pseudo-filesystem is the set of the paths that exist.   *)
(***************************************************************************)
\* sprintf(buf, "/sys/block/%s/%s/", p, dev)
SysPath(p, d) == <<"/sys/block/">> \o p \o <<"/">> \o d \o <<"/">>
is_path_exist(fs, path) == path \in fs

\* The scan from the end of the name: digit_end is the index (from 0) of the
\* first digit of the trailing run, end the index of a 'p' right before it.
RECURSIVE ScanDigits(_, _)
ScanDigits(d, i) ==
    \* i is the C index; d[i + 1] the character
    IF i < 0 THEN [digit_end |-> 0, end |-> 0]
    ELSE IF ~IsDigit(d[i + 1])
         THEN [digit_end |-> IF i = Len(d) - 1 THEN 0 ELSE i + 1,
               end |-> IF d[i + 1] = "p" /\ i # Len(d) - 1 THEN i ELSE 0]
         ELSE IF i = 0 THEN [digit_end |-> 0, end |-> 0]
              ELSE ScanDigits(d, i - 1)

NoParent == [ret |-> 0, base |-> <<>>]

get_parent_device_pfirst(d, fs) ==
    IF Len(d) < 2 THEN NoParent
    ELSE LET sc == ScanDigits(d, Len(d) - 1)
             p1 == SubSeq(d, 1, sc.digit_end)
             p2 == SubSeq(d, 1, sc.end)
         IN  IF sc.digit_end = 0 THEN NoParent
             ELSE IF sc.end # 0 /\ is_path_exist(fs, SysPath(p2, d))
                  THEN [ret |-> sc.end, base |-> p2]
             ELSE IF is_path_exist(fs, SysPath(p1, d))
                  THEN [ret |-> sc.digit_end, base |-> p1]
             ELSE NoParent

get_parent_device(d, fs) ==
    IF Len(d) < 2 THEN NoParent
    ELSE LET sc == ScanDigits(d, Len(d) - 1)
             p1 == SubSeq(d, 1, sc.digit_end)
             p2 == SubSeq(d, 1, sc.end)
         IN  IF sc.digit_end = 0 THEN NoParent
             ELSE IF is_path_exist(fs, SysPath(p1, d))
                  THEN [ret |-> sc.digit_end, base |-> p1]
             ELSE IF sc.end = 0 THEN NoParent
             ELSE IF is_path_exist(fs, SysPath(p2, d))
                  THEN [ret |-> sc.end, base |-> p2]
             ELSE NoParent

(***************************************************************************)
(* The on-disk layout (bcache.h).                                          *)
(***************************************************************************)
SB_SECTOR == 8
BDEV_DATA_START_DEFAULT == 16
SB_JOURNAL_BUCKETS == 256
BDEV_SB_NUM_MAX == 3
BCACHE_SB_VERSION_CDEV == 0
BCACHE_SB_VERSION_BDEV == 1
BCACHE_SB_VERSION_BDEV_WITH_OFFSET == 4
CACHE_MODE_WRITETHROUGH == 0
CACHE_MODE_WRITEBACK == 1
BDEV_STATE_NONE == 0
BDEV_STATE_DIRTY == 2
MinBuckets == 128

\* The sector of superblock copy i, and the least data offset of n copies.
SB_OFFSET(i) == SB_SECTOR + i * SB_SECTOR
BDEV_DATA_OFFSET(n) == BDEV_DATA_START_DEFAULT + n * SB_SECTOR

SlotIds == 0..(BDEV_SB_NUM_MAX - 1)

\* A slot without the bcache magic, and the zeroed struct cache_sb.
NoSB == [magic |-> FALSE]
ZeroSb == [magic |-> FALSE, csum |-> <<>>, offset |-> 0, version |-> 0,
           uuid |-> 0, set_uuid |-> 0, block_size |-> 0, bucket_size |-> 0,
           data_offset |-> 0, cache_mode |-> 0, bdev_state |-> 0,
           discard |-> 0, replacement |-> 0,
           nbuckets |-> 0, nr_in_set |-> 0, first_bucket |-> 0]

SB_IS_BDEV(s) == s.version = BCACHE_SB_VERSION_BDEV
                 \/ s.version = BCACHE_SB_VERSION_BDEV_WITH_OFFSET

\* The checksum of a record: a function of every field but the checksum.
csum_set(s) == <<s.offset, s.version, s.uuid, s.set_uuid, s.block_size,
                 s.bucket_size, s.data_offset, s.cache_mode, s.bdev_state,
                 s.discard, s.replacement, s.nbuckets, s.nr_in_set,
                 s.first_bucket>>

\* What pread of a slot yields: the record, or bytes without the magic.
ReadSlot(d, i) == IF d.sb[i].magic THEN d.sb[i] ELSE ZeroSb

(***************************************************************************)
(* Devices and the identifiers the UUID library generates.                 *)
(***************************************************************************)
Devs == {1, 2}
Garbage == "garbage"
Zeroes == "zeroes"
TagAlcubierre == "alcubierre"
TagSkipUdev == "##skipudev"

\* A device nobody has formatted: capacity in sectors, logical block size in
\* bytes, and blkid_do_probe's answer (0 found a signature, 1 nothing, -1 error).
Blank(cap, probe) ==
    [tag |-> Garbage, hdr |-> Garbage, sb |-> [i \in SlotIds |-> NoSB],
     journal |-> <<>>, cap |-> cap, lbs |-> 512, probe |-> probe]

Profiles == { Blank(131075, 1), Blank(1023, -1), Blank(131075, 0) }
Unused == Blank(0, 1)

UuidsOf(d) == UNION { IF d.sb[i].magic THEN {d.sb[i].uuid, d.sb[i].set_uuid} ELSE {}
                      : i \in SlotIds }
UuidsInUse(dv, p, s) ==
    UNION { UuidsOf(dv[d]) : d \in Devs } \cup {p.set_uuid, p.bdev_uuid}
    \cup {s.uuid, s.set_uuid}

\* uuid_generate: an identifier that occurs nowhere in the system (the least).
RECURSIVE FreshFrom(_, _)
FreshFrom(S, n) == IF n \in S THEN FreshFrom(S, n + 1) ELSE n
uuid_generate(S) == FreshFrom(S, 1)

(***************************************************************************)
(* The command lines the model tries.                                      *)
(***************************************************************************)
Range(q) == { q[k] : k \in 1..Len(q) }
Lists(S) == {<<>>} \cup { <<a>> : a \in S }
            \cup ({ <<a, b>> : a \in S, b \in S } \ { <<a, a>> : a \in S })
NonEmptyLists(S) == Lists(S) \ {<<>>}

Arg4k == <<"4", "k">>
Arg3k == <<"3", "k">>
Arg8k == <<"8", "k">>
\* The identifiers a user passes with -u and -v.
UserUuids == <<100, 101>>
UserSetUuid == UserUuids[1]
UserBdevUuid == UserUuids[2]
BadUuid == -1
NoArg == -1

\* The options of main: -A, -S, -b, -w, --writeback, --wipe-bcache, -o, -u, -v,
\* -s, -r, and the devices after -C and after -B.  An absent -b or -w is the
\* empty string, an absent -o or -r is -1, an absent -u or -v is 0.
BaseOpt(c, b) ==
    [A |-> FALSE, S |-> FALSE, bucket |-> <<>>, block |-> <<>>,
     writeback |-> FALSE, wipe |-> FALSE, off |-> NoArg, u |-> 0, v |-> 0,
     sb_num |-> 1, sb_idx |-> NoArg, cache |-> c, backing |-> b]

\* -o and -s together: the default offset with every count, an offset that is
\* the default data start, and one that leaves room for a single copy.
OffsetArgs == { <<NoArg, n>> : n \in 0..BDEV_SB_NUM_MAX }
              \cup { <<BDEV_DATA_START_DEFAULT, 0>> }
              \cup { <<BDEV_DATA_OFFSET(1), n>> : n \in 0..2 }

CacheFormats(U) ==
    { [BaseOpt(c, <<>>) EXCEPT !.A = a, !.S = s, !.bucket = bk, !.wipe = w, !.u = u]
      : c \in NonEmptyLists(U), a \in BOOLEAN, s \in BOOLEAN,
        bk \in {<<>>, Arg4k}, w \in BOOLEAN, u \in {0, UserSetUuid} }

BackingFormats(U) ==
    { [BaseOpt(cb[1], cb[2]) EXCEPT !.bucket = Arg4k, !.writeback = wb, !.wipe = w,
                                    !.off = on[1], !.sb_num = on[2],
                                    !.u = uv[1], !.v = uv[2]]
      : cb \in { x \in Lists(U) \X NonEmptyLists(U) : Range(x[1]) \cap Range(x[2]) = {} },
        wb \in BOOLEAN, w \in BOOLEAN, on \in OffsetArgs,
        uv \in { <<0, 0>>, <<UserSetUuid, UserBdevUuid>> } }

Resets(U) ==
    { [BaseOpt(<<>>, b) EXCEPT !.wipe = w, !.sb_idx = i, !.u = u, !.v = v]
      : b \in NonEmptyLists(U), w \in BOOLEAN, i \in SlotIds,
        u \in {0, UserSetUuid}, v \in {0, UserBdevUuid} }

Invalids(U) ==
    { [BaseOpt(c, <<>>) EXCEPT !.bucket = Arg3k] : c \in NonEmptyLists(U) }
    \cup { [BaseOpt(c, <<>>) EXCEPT !.bucket = Arg4k, !.block = Arg8k]
           : c \in NonEmptyLists(U) }
    \cup { [BaseOpt(c, <<>>) EXCEPT !.u = BadUuid] : c \in NonEmptyLists(U) }
    \cup { [BaseOpt(<<>>, b) EXCEPT !.sb_num = BDEV_SB_NUM_MAX + 1]
           : b \in NonEmptyLists(U) }
    \cup { [BaseOpt(<<>>, b) EXCEPT !.sb_idx = BDEV_SB_NUM_MAX, !.wipe = TRUE]
           : b \in NonEmptyLists(U) }
    \cup { BaseOpt(<<>>, <<>>) }

\* Command lines over several devices: every split into cache and backing
\* devices in every order, with the default sizes.
BatchFormats(U) ==
    { [BaseOpt(cb[1], cb[2]) EXCEPT !.wipe = w, !.sb_num = n]
      : cb \in { x \in Lists(U) \X Lists(U) : Range(x[1]) \cap Range(x[2]) = {} },
        w \in BOOLEAN, n \in 1..2 }

OptSpace(U) ==
    IF Cardinality(U) = 1
    THEN CacheFormats(U) \cup BackingFormats(U) \cup Resets(U) \cup Invalids(U)
    ELSE BatchFormats(U)
OptSpaceOf == [U \in SUBSET Devs |-> OptSpace(U)]

\* hatoi_validate of the size arguments the command lines use.
SizeArgs == {Arg4k, Arg3k, Arg8k}

(***************************************************************************)
(* main: option parsing and the checks before any device is opened.        *)
(***************************************************************************)
NoPar == [alcubierre_dev |-> FALSE, skip_udev_register |-> FALSE,
          block_size |-> 0, bucket_size |-> 0, writeback |-> FALSE,
          wipe_bcache |-> FALSE, data_offset |-> 0, set_uuid |-> 0,
          bdev_uuid |-> 0, dirty |-> FALSE, sb_num |-> 0, sb_idx |-> NoArg,
          cache_devices |-> <<>>, backing_devices |-> <<>>]

\* get_blocksize of a block device: BLKSSZGET over 512.
get_blocksize(d) == d.lbs \div 512

RECURSIVE MaxBlocksize(_, _, _)
MaxBlocksize(dv, q, acc) ==
    IF q = <<>> THEN acc
    ELSE MaxBlocksize(dv, Tail(q), Max2(acc, get_blocksize(dv[Head(q)])))

ValidationErrs == {"validation", "offset", "buckets"}

\* The data offset main hands to write_sb, and whether main rejects it.
MainDataOffset(o) == IF o.off = NoArg THEN BDEV_DATA_OFFSET(o.sb_num) ELSE o.off
MainOffsetBad(o) == o.off # NoArg /\ o.off < BDEV_DATA_OFFSET(o.sb_num)

SizeOfArg == [a \in SizeArgs |-> hatoi_validate(a)]

\* The outcome of main up to its first call of write_sb or reset_backing_sb:
\* err, the locals, the devices in the order they will be formatted, and
\* whether reset_backing_sb is called.
Main(o, dv) ==
    LET set0     == uuid_generate(UuidsInUse(dv, NoPar, ZeroSb))
        bdev0    == uuid_generate(UuidsInUse(dv, NoPar, ZeroSb) \cup {set0})
        bucket   == IF o.bucket = <<>> THEN [ok |-> TRUE, v |-> 1024]
                    ELSE SizeOfArg[o.bucket]
        block    == IF o.block = <<>> THEN [ok |-> TRUE, v |-> 0]
                    ELSE SizeOfArg[o.block]
        all      == o.cache \o o.backing
        blk      == IF block.v = 0 THEN MaxBlocksize(dv, all, 0) ELSE block.v
        p        == [alcubierre_dev |-> o.A, skip_udev_register |-> o.A \/ o.S,
                     block_size |-> blk, bucket_size |-> bucket.v,
                     writeback |-> o.writeback, wipe_bcache |-> o.wipe,
                     data_offset |-> MainDataOffset(o),
                     set_uuid |-> IF o.u = 0 THEN set0 ELSE o.u,
                     bdev_uuid |-> IF o.v = 0 THEN bdev0 ELSE o.v,
                     dirty |-> (o.v # 0), sb_num |-> o.sb_num, sb_idx |-> o.sb_idx,
                     cache_devices |-> o.cache, backing_devices |-> o.backing]
        q        == [k \in 1..Len(all) |->
                       [dev |-> all[k], bdev |-> k > Len(o.cache)]]
        Fail(e, pp) == [err |-> e, par |-> pp, queue |-> <<>>, reset |-> FALSE]
    IN  IF ~bucket.ok \/ ~block.ok THEN Fail("validation", NoPar)
        ELSE IF o.u = BadUuid \/ o.v = BadUuid THEN Fail("validation", NoPar)
        ELSE IF o.sb_num > BDEV_SB_NUM_MAX THEN Fail("validation", NoPar)
        ELSE IF o.sb_idx # NoArg /\ (o.sb_idx < 0 \/ o.sb_idx >= BDEV_SB_NUM_MAX)
             THEN Fail("validation", NoPar)
        ELSE IF all = <<>> THEN Fail("usage", NoPar)
        ELSE IF bucket.v < blk THEN Fail("validation", p)
        ELSE IF MainOffsetBad(o) THEN Fail("validation", p)
        ELSE IF o.sb_idx >= 0
             THEN IF Len(o.backing) # 1 THEN Fail("usage", p)
                  ELSE [err |-> "none", par |-> p,
                        queue |-> <<[dev |-> o.backing[1], bdev |-> TRUE]>>,
                        reset |-> TRUE]
        ELSE [err |-> "none", par |-> p, queue |-> q, reset |-> FALSE]

(***************************************************************************)
(* write_sb, one action per device access.                                 *)
(***************************************************************************)
Cur == Head(queue)
CurDev == dev[Cur.dev]

\* The record write_sb builds for the head of the queue (lines 283-359), and
\* the error that stops it before the first write.
BuildSb(p, bdev, d) ==
    LET s0 == [ZeroSb EXCEPT !.magic = TRUE, !.offset = SB_SECTOR,
                   !.version = IF bdev THEN BCACHE_SB_VERSION_BDEV
                               ELSE BCACHE_SB_VERSION_CDEV,
                   !.uuid = p.bdev_uuid, !.set_uuid = p.set_uuid,
                   !.bucket_size = p.bucket_size % 65536,
                   !.block_size = p.block_size % 65536]
        sB == [s0 EXCEPT
                   !.bdev_state = IF p.dirty THEN BDEV_STATE_DIRTY ELSE BDEV_STATE_NONE,
                   !.cache_mode = IF p.writeback THEN CACHE_MODE_WRITEBACK
                                  ELSE CACHE_MODE_WRITETHROUGH,
                   !.version = IF p.data_offset # BDEV_DATA_START_DEFAULT
                               THEN BCACHE_SB_VERSION_BDEV_WITH_OFFSET ELSE @,
                   !.data_offset = IF p.data_offset # BDEV_DATA_START_DEFAULT
                                   THEN p.data_offset ELSE @]
        sC == [s0 EXCEPT !.nbuckets = d.cap \div s0.bucket_size,
                         !.nr_in_set = 1,
                         !.first_bucket = (23 \div s0.bucket_size) + 1]
        s  == IF bdev THEN sB ELSE sC
    IN  [s EXCEPT !.csum = csum_set(s)]

OffsetTooSmall(s, n) == s.data_offset < BDEV_DATA_START_DEFAULT + n * SB_SECTOR

NotEnoughBucketsOff(s) == s.nbuckets < MinBuckets - 1
NotEnoughBuckets(s) == s.nbuckets < MinBuckets

\* The copy count write_sb is called with: sb_num for a backing device, 1 for
\* a cache device.
SbNumOf(p, bdev) == IF bdev THEN p.sb_num ELSE 1

MagicBlocksNever(old, wipe) == FALSE
MagicBlocks(old, wipe) == old.magic /\ ~wipe

ProbeBlocksNever(d) == FALSE
ProbeBlocks(d) == d.probe = 0

WsError(p, bdev, d) ==
    LET old == ReadSlot(d, 0)
        s   == BuildSb(p, bdev, d)
    IN  IF MagicBlocks(old, p.wipe_bcache) THEN "exists"
        ELSE IF ProbeBlocks(d) THEN "foreign"
        ELSE IF bdev /\ OffsetTooSmall(s, SbNumOf(p, bdev)) THEN "offset"
        ELSE IF ~bdev /\ NotEnoughBuckets(s) THEN "buckets"
        ELSE "none"

Exit(e) ==
    /\ pc' = "exited"
    /\ err' = e

\* open, pread of the primary slot, the magic and probe checks, the record
\* and its validation: everything before the first pwrite.
WsOpen ==
    /\ pc = "ws_open"
    /\ LET e == WsError(par, Cur.bdev, CurDev)
       IN  IF e # "none"
           THEN /\ Exit(e)
                /\ UNCHANGED sb
           ELSE /\ pc' = "ws_zero"
                /\ sb' = BuildSb(par, Cur.bdev, CurDev)
                /\ UNCHANGED err
    /\ UNCHANGED <<dev, used, par, queue, idx, pre, runs>>

\* pwrite(fd, zeroes, SB_START, 0)
WsZero ==
    /\ pc = "ws_zero"
    /\ dev' = [dev EXCEPT ![Cur.dev].tag = Zeroes, ![Cur.dev].hdr = Zeroes]
    /\ pc' = IF par.alcubierre_dev \/ par.skip_udev_register THEN "ws_tag"
             ELSE "ws_primary"
    /\ UNCHANGED <<used, par, queue, sb, idx, err, pre, runs>>

\* pwrite of the ten bytes of the identity marker
WsTagSkipFirst ==
    /\ pc = "ws_tag"
    /\ dev' = [dev EXCEPT ![Cur.dev].tag =
                  IF par.skip_udev_register THEN TagSkipUdev ELSE TagAlcubierre]
    /\ pc' = "ws_primary"
    /\ UNCHANGED <<used, par, queue, sb, idx, err, pre, runs>>
WsTag ==
    /\ pc = "ws_tag"
    /\ dev' = [dev EXCEPT ![Cur.dev].tag =
                  IF par.alcubierre_dev THEN TagAlcubierre ELSE TagSkipUdev]
    /\ pc' = "ws_primary"
    /\ UNCHANGED <<used, par, queue, sb, idx, err, pre, runs>>

\* pwrite(fd, &sb, sizeof(sb), SB_START)
WsPrimary ==
    /\ pc = "ws_primary"
    /\ dev' = [dev EXCEPT ![Cur.dev].sb[0] = sb]
    /\ idx' = 1
    /\ pc' = IF SB_IS_BDEV(sb)
             THEN IF 1 < par.sb_num THEN "ws_secondary" ELSE "ws_close"
             ELSE "ws_journal"
    /\ UNCHANGED <<used, par, queue, sb, err, pre, runs>>

\* The record of a secondary copy: the primary's with new identifiers.
SecondarySbRebuilt(s, u1, u2) ==
    LET s1 == [ZeroSb EXCEPT !.magic = TRUE, !.offset = SB_SECTOR,
                   !.version = s.version, !.uuid = u1, !.set_uuid = u2,
                   !.block_size = s.block_size, !.bucket_size = s.bucket_size]
    IN  [s1 EXCEPT !.csum = csum_set(s1)]

SecondarySb(s, u1, u2) ==
    LET s1 == [s EXCEPT !.offset = SB_SECTOR, !.uuid = u1, !.set_uuid = u2]
    IN  [s1 EXCEPT !.csum = csum_set(s1)]

\* One round of the loop over the secondary copies.
WsSecondary ==
    /\ pc = "ws_secondary"
    /\ LET u1 == uuid_generate(UuidsInUse(dev, par, sb))
           u2 == uuid_generate(UuidsInUse(dev, par, sb) \cup {u1})
           s2 == SecondarySb(sb, u1, u2)
       IN  /\ sb' = s2
           /\ dev' = [dev EXCEPT ![Cur.dev].sb[idx] = s2]
    /\ idx' = idx + 1
    /\ pc' = IF idx + 1 < par.sb_num THEN "ws_secondary" ELSE "ws_close"
    /\ UNCHANGED <<used, par, queue, err, pre, runs>>

\* The sectors the journal loop zeroes: buckets first_bucket .. end-1.
JournalRange(s) ==
    LET end == Min2(s.nbuckets, s.first_bucket + SB_JOURNAL_BUCKETS)
    IN  <<s.first_bucket * s.bucket_size, end * s.bucket_size>>

WsJournal ==
    /\ pc = "ws_journal"
    /\ LET r == JournalRange(sb)
       IN  dev' = [dev EXCEPT ![Cur.dev].journal = r,
                              ![Cur.dev].sb =
                                  [i \in SlotIds |->
                                     IF r[1] <= SB_OFFSET(i) /\ SB_OFFSET(i) < r[2]
                                     THEN NoSB ELSE @[i]]]
    /\ pc' = "ws_close"
    /\ UNCHANGED <<used, par, queue, sb, idx, err, pre, runs>>

\* fsync, close, and main's loops move to the next device or return 0.
WsCloseReturns ==
    /\ pc = "ws_close"
    /\ queue' = <<>>
    /\ pc' = "exited"
    /\ UNCHANGED <<dev, used, par, sb, idx, err, pre, runs>>
WsClose ==
    /\ pc = "ws_close"
    /\ queue' = Tail(queue)
    /\ pc' = IF Tail(queue) = <<>> THEN "exited" ELSE "ws_open"
    /\ UNCHANGED <<dev, used, par, sb, idx, err, pre, runs>>

(***************************************************************************)
(* reset_backing_sb.                                                       *)
(***************************************************************************)
SameUuid(old, p) == old.uuid = p.bdev_uuid
SameSetUuidIgnored(old, p) == FALSE
SameSetUuid(old, p) == old.set_uuid = p.set_uuid

\* The checks before the record is rebuilt (lines 452-478).
ResetError(old, p) ==
    IF ~old.magic THEN "notbcache"
    ELSE IF ~p.wipe_bcache THEN "exists"
    ELSE IF ~SB_IS_BDEV(old) THEN "notbdev"
    ELSE IF SameUuid(old, p) THEN "sameuuid"
    ELSE IF SameSetUuid(old, p) THEN "sameuuid"
    ELSE "none"

\* The record reset_backing_sb writes (lines 468-514).
ResetSb(old, p) ==
    LET s == [ZeroSb EXCEPT !.magic = TRUE, !.offset = SB_SECTOR,
                  !.version = IF old.data_offset # BDEV_DATA_START_DEFAULT
                              THEN BCACHE_SB_VERSION_BDEV_WITH_OFFSET
                              ELSE BCACHE_SB_VERSION_BDEV,
                  !.uuid = p.bdev_uuid, !.set_uuid = p.set_uuid,
                  !.bucket_size = old.bucket_size, !.block_size = old.block_size,
                  !.data_offset = IF old.data_offset # BDEV_DATA_START_DEFAULT
                                  THEN old.data_offset ELSE 0]
    IN  [s EXCEPT !.csum = csum_set(s)]

reset_backing_sb ==
    /\ pc = "reset"
    /\ LET old == ReadSlot(CurDev, par.sb_idx)
           e   == ResetError(old, par)
           s   == ResetSb(old, par)
       IN  IF e # "none"
           THEN /\ Exit(e)
                /\ UNCHANGED <<dev, sb>>
           ELSE IF s.data_offset # old.data_offset
           THEN /\ Exit("mismatch")
                /\ UNCHANGED <<dev, sb>>
           ELSE /\ sb' = s
                /\ dev' = [dev EXCEPT ![Cur.dev].sb[par.sb_idx] = s]
                /\ pc' = "exited"
                /\ UNCHANGED err
    /\ UNCHANGED <<used, par, queue, idx, pre, runs>>

(***************************************************************************)
(* Failures of the system calls: open with O_EXCL on a busy device, and a  *)
(* pread or pwrite that returns short.  The process exits on the spot.     *)
(***************************************************************************)
OpenFail ==
    /\ pc \in {"ws_open", "reset"}
    /\ Exit("open")
    /\ UNCHANGED <<dev, used, par, queue, sb, idx, pre, runs>>

IoError ==
    /\ pc \in {"ws_open", "ws_zero", "ws_tag", "ws_primary", "ws_secondary",
               "ws_journal", "reset"}
    /\ Exit("io")
    /\ UNCHANGED <<dev, used, par, queue, sb, idx, pre, runs>>

(***************************************************************************)
(* One invocation of the tool, and the end of its process.                 *)
(***************************************************************************)
RunLimit == IF Cardinality(used) = 1 THEN MaxRuns ELSE MaxBatchRuns

Invoke ==
    /\ pc = "idle"
    /\ runs < RunLimit
    /\ \E o \in OptSpaceOf[used] :
         LET m == Main(o, dev)
         IN  /\ par' = m.par
             /\ queue' = m.queue
             /\ err' = m.err
             /\ pc' = IF m.err # "none" THEN "exited"
                      ELSE IF m.reset THEN "reset" ELSE "ws_open"
    /\ runs' = runs + 1
    /\ pre' = dev
    /\ UNCHANGED <<dev, used, sb, idx>>

ProcessEnd ==
    /\ pc = "exited"
    /\ pc' = "idle"
    /\ par' = NoPar
    /\ queue' = <<>>
    /\ sb' = ZeroSb
    /\ idx' = 0
    /\ err' = "none"
    /\ pre' = dev
    /\ UNCHANGED <<dev, used, runs>>

HatoiNotCalled == [ok |-> FALSE, msg |-> "not called", v |-> 0]
ParentNotCalled == [ret |-> -1, base |-> <<>>]
NoInput == [neg |-> FALSE, digits |-> FALSE, n |-> 0, suf |-> <<>>]

PureIdle ==
    /\ hin = NoInput
    /\ hout = HatoiNotCalled
    /\ gdev = <<>>
    /\ gfs = {}
    /\ gout = ParentNotCalled

Init ==
    /\ used \in {{1}, {1, 2}}
    /\ dev \in [Devs -> Profiles \cup {Unused}]
    /\ \A d \in Devs : (dev[d] = Unused) <=> (d \notin used)
    /\ dev[2].probe # 0
    /\ pc = "idle"
    /\ par = NoPar
    /\ queue = <<>>
    /\ sb = ZeroSb
    /\ idx = 0
    /\ err = "none"
    /\ pre = dev
    /\ runs = 0
    /\ PureIdle

Next ==
    \/ (Invoke /\ UNCHANGED <<hatoiVars, parentVars>>)
    \/ (WsOpen /\ UNCHANGED <<hatoiVars, parentVars>>)
    \/ (WsZero /\ UNCHANGED <<hatoiVars, parentVars>>)
    \/ (WsTag /\ UNCHANGED <<hatoiVars, parentVars>>)
    \/ (WsPrimary /\ UNCHANGED <<hatoiVars, parentVars>>)
    \/ (WsSecondary /\ UNCHANGED <<hatoiVars, parentVars>>)
    \/ (WsJournal /\ UNCHANGED <<hatoiVars, parentVars>>)
    \/ (WsClose /\ UNCHANGED <<hatoiVars, parentVars>>)
    \/ (reset_backing_sb /\ UNCHANGED <<hatoiVars, parentVars>>)
    \/ (OpenFail /\ UNCHANGED <<hatoiVars, parentVars>>)
    \/ (IoError /\ UNCHANGED <<hatoiVars, parentVars>>)
    \/ (ProcessEnd /\ UNCHANGED <<hatoiVars, parentVars>>)

Spec == Init /\ [][Next]_vars

(***************************************************************************)
(* hatoi_validate on its own: the argument is a sign, a number and a       *)
(* suffix; the function sees only the text.                                *)
(***************************************************************************)
HatoiNumbers ==
    (0..20)
    \cup { Pow2(e) : e \in 0..MaxExp }
    \cup { Pow2(e) + 1 : e \in 0..(MaxExp - 1) }
    \cup { Pow2(e) - 1 : e \in 0..MaxExp }
    \cup { 3 * Pow2(e) : e \in 0..(MaxExp - 2) }

Suffixes == { <<>>, <<"k">>, <<"K">>, <<"m">>, <<"M">>, <<"g">>, <<"G">>,
              <<"t">>, <<"T">>, <<"x">>, <<"k", "k">> }

HatoiInputs ==
    { [neg |-> ng, digits |-> TRUE, n |-> n, suf |-> sf]
      : ng \in BOOLEAN, n \in HatoiNumbers, sf \in Suffixes }
    \cup { [neg |-> FALSE, digits |-> FALSE, n |-> 0, suf |-> sf] : sf \in Suffixes }

\* What the user types for an input.
ArgText(x) == (IF x.neg THEN <<"-">> ELSE <<>>)
              \o (IF x.digits THEN Decimal(x.n) ELSE <<>>) \o x.suf

MainIdle ==
    /\ used = {}
    /\ dev = [d \in Devs |-> Unused]
    /\ pc = "idle"
    /\ par = NoPar
    /\ queue = <<>>
    /\ sb = ZeroSb
    /\ idx = 0
    /\ err = "none"
    /\ pre = dev
    /\ runs = 0

HatoiValidate ==
    /\ hout = HatoiNotCalled
    /\ hout' = hatoi_validate(ArgText(hin))
    /\ UNCHANGED hin

InitHatoi ==
    /\ MainIdle
    /\ hin \in HatoiInputs
    /\ hout = HatoiNotCalled
    /\ gdev = <<>>
    /\ gfs = {}
    /\ gout = ParentNotCalled

NextHatoi == HatoiValidate /\ UNCHANGED <<mainVars, parentVars>>

SpecHatoi == InitHatoi /\ [][NextHatoi]_vars

(***************************************************************************)
(* get_parent_device on its own: a device name and a state of /sys/block.  *)
(***************************************************************************)
NameChars == {"a", "p", "1", "2"}
RECURSIVE NamesOfLen(_)
NamesOfLen(n) == IF n = 0 THEN {<<>>}
                 ELSE { Append(w, c) : w \in NamesOfLen(n - 1), c \in NameChars }

DeviceNames ==
    UNION { NamesOfLen(n) : n \in 1..MaxNameLen }
    \cup { <<"s", "d", "a">>, <<"s", "d", "a", "1">>, <<"s", "d", "p", "1">>,
           <<"s", "d", "a", "1", "2">>,
           <<"n", "v", "m", "e", "0", "n", "1">>,
           <<"n", "v", "m", "e", "0", "n", "1", "p", "1">> }

\* The paths a state of /sys/block may hold for a name: the name under each
\* of its last prefixes (the empty one included).
PathsFor(d) == { SysPath(SubSeq(d, 1, k), d) : k \in Max2(0, Len(d) - 4)..(Len(d) - 1) }

GetParentDevice ==
    /\ gout = ParentNotCalled
    /\ gout' = get_parent_device(gdev, gfs)
    /\ UNCHANGED <<gdev, gfs>>

InitParent ==
    /\ MainIdle
    /\ hin = NoInput
    /\ hout = HatoiNotCalled
    /\ gdev \in DeviceNames
    /\ gfs \in SUBSET PathsFor(gdev)
    /\ gout = ParentNotCalled

NextParent == GetParentDevice /\ UNCHANGED <<mainVars, hatoiVars>>

SpecParent == InitParent /\ [][NextParent]_vars

(***************************************************************************)
(* Notions the properties of the tool share.                               *)
(***************************************************************************)
Formatting == pc \in {"ws_open", "ws_zero", "ws_tag", "ws_primary",
                      "ws_secondary", "ws_journal", "ws_close"}
\* reset_backing_sb was called and the process has ended.
ResetEnded == pc = "exited" /\ par.sb_idx >= 0 /\ queue # <<>>
\* The process has ended and the run was a format that got past main's checks.
FormatRun == par.sb_idx = NoArg /\ par.cache_devices \o par.backing_devices # <<>>
ValidCsum(r) == r.magic /\ r.csum = csum_set(r)
MagicSlots(d) == { i \in SlotIds : d.sb[i].magic }
\* The sectors reserved for n superblock copies in front of the data.
Reserved(n) == BDEV_DATA_START_DEFAULT + n * SB_SECTOR

(***************************************************************************)
(* C1.  A successful reset of copy i changes only the device_uuid, the     *)
(* set_uuid and the checksum of copy i: its version, block_size,           *)
(* bucket_size, data_offset, cache mode and dirty flag are as before, and  *)
(* every other copy and every other part of the device is as before.       *)
(***************************************************************************)
ResetChangesOnlyIdentity ==
    (ResetEnded /\ err = "none") =>
        LET d   == Cur.dev
            i   == par.sb_idx
            old == pre[d].sb[i]
            new == dev[d].sb[i]
        IN  /\ new.magic
            /\ new.version = old.version
            /\ new.block_size = old.block_size
            /\ new.bucket_size = old.bucket_size
            /\ new.data_offset = old.data_offset
            /\ new.cache_mode = old.cache_mode
            /\ new.bdev_state = old.bdev_state
            /\ \A j \in SlotIds \ {i} : dev[d].sb[j] = pre[d].sb[j]
            /\ [dev[d] EXCEPT !.sb = pre[d].sb] = pre[d]
            /\ \A e \in Devs \ {d} : dev[e] = pre[e]

(***************************************************************************)
(* C2.  After a successful format of a backing device with copy count N    *)
(* (N >= 1), exactly N records with the bcache magic exist on the device,  *)
(* at the indices 0..N-1; each has a valid checksum, all share version,    *)
(* block_size, bucket_size and data_offset, and the identifiers of any two *)
(* copies differ.                                                          *)
(***************************************************************************)
FormatLeavesExactlyNCopies ==
    (pc = "ws_close" /\ Cur.bdev /\ par.sb_num >= 1) =>
        LET d == dev[Cur.dev]
            n == par.sb_num
        IN  /\ MagicSlots(d) = 0..(n - 1)
            /\ \A i \in 0..(n - 1) :
                 /\ ValidCsum(d.sb[i])
                 /\ d.sb[i].version = d.sb[0].version
                 /\ d.sb[i].block_size = d.sb[0].block_size
                 /\ d.sb[i].bucket_size = d.sb[0].bucket_size
                 /\ d.sb[i].data_offset = d.sb[0].data_offset
            /\ \A i, j \in 0..(n - 1) :
                 i # j => /\ d.sb[i].uuid # d.sb[j].uuid
                          /\ d.sb[i].set_uuid # d.sb[j].set_uuid

(***************************************************************************)
(* C3.  When a run of the format tool ends with an input validation error  *)
(* (a bad size, a malformed UUID, a bucket smaller than the block, an      *)
(* insufficient data offset, fewer than 128 buckets), no device has been   *)
(* written: every device is as it was before the invocation.               *)
(***************************************************************************)
ValidationErrorLeavesDevicesUntouched ==
    (pc = "exited" /\ err \in ValidationErrs) => dev = pre

(***************************************************************************)
(* C4 as stated.  Between the header-zeroing write and the primary         *)
(* superblock write of a format, no bcache magic is present at the primary *)
(* superblock offset.                                                      *)
(***************************************************************************)
ZeroWindow == pc \in {"ws_tag", "ws_primary"}

NoMagicInZeroWindow ==
    ZeroWindow => ~dev[Cur.dev].sb[0].magic

(***************************************************************************)
(* C4 as amended.  Between the header-zeroing write and the primary        *)
(* superblock write of a format, the header region past the marker is      *)
(* zero and every superblock slot holds what it held before the format:    *)
(* the primary offset carries a bcache magic exactly when it did before,   *)
(* which happens only under the wipe flag.                                 *)
(***************************************************************************)
ZeroWindowKeepsOldPrimary ==
    ZeroWindow =>
        LET d == Cur.dev
        IN  /\ dev[d].hdr = Zeroes
            /\ dev[d].tag \in {Zeroes, TagAlcubierre, TagSkipUdev}
            /\ dev[d].sb = pre[d].sb
            /\ dev[d].sb[0].magic => par.wipe_bcache

\* A device that held a superblock is in the window, the old one still there.
ZeroWindowWitness ==
    /\ pc = "ws_primary"
    /\ dev[Cur.dev].sb[0].magic
    /\ dev[Cur.dev].sb[0] # sb
    /\ dev[Cur.dev].hdr = Zeroes
    /\ par.wipe_bcache

(***************************************************************************)
(* C5.  A format writes to a device only when the primary offset holds no  *)
(* bcache magic or the wipe flag is set, and the probe reports no foreign  *)
(* signature.  Otherwise, whatever the wipe flag, the format of that       *)
(* device fails and the device is as it was before.                        *)
(***************************************************************************)
MayFormat(d) == (~pre[d].sb[0].magic \/ par.wipe_bcache) /\ pre[d].probe # 0

FormatWritesOnlyWhenAllowed ==
    FormatRun =>
        /\ \A d \in Devs : ~MayFormat(d) => dev[d] = pre[d]
        /\ (Formatting /\ ~MayFormat(Cur.dev)) => pc = "ws_open"
        /\ (pc = "exited" /\ err = "none") =>
              \A d \in Range(par.cache_devices \o par.backing_devices) : MayFormat(d)

\* A foreign signature stops the format although the wipe flag is set.
FormatRefusedWitness ==
    /\ pc = "exited"
    /\ FormatRun
    /\ err = "foreign"
    /\ par.wipe_bcache
    /\ dev = pre

(***************************************************************************)
(* C6.  reset_backing_sb writes to the device if and only if the record at *)
(* the index carries the bcache magic, the wipe override is set, the       *)
(* record is a backing-device variant, and the new device_uuid and the new *)
(* set_uuid both differ from the record's.  In every other case the reset  *)
(* is rejected and the device is unchanged.  (A failing system call is no  *)
(* rejection: it too leaves the device unchanged.)                         *)
(***************************************************************************)
MayReset(old) ==
    IF ~old.magic THEN FALSE
    ELSE /\ par.wipe_bcache
         /\ old.version \in {BCACHE_SB_VERSION_BDEV, BCACHE_SB_VERSION_BDEV_WITH_OFFSET}
         /\ old.uuid # par.bdev_uuid
         /\ old.set_uuid # par.set_uuid

ResetWritesIffAllowed ==
    ResetEnded =>
        LET d   == Cur.dev
            old == pre[d].sb[par.sb_idx]
        IN  /\ err \notin {"open", "io"} =>
                 /\ (dev[d] # pre[d]) <=> MayReset(old)
                 /\ (err = "none") <=> MayReset(old)
            /\ err # "none" => dev = pre

\* Rejected because only the set_uuid equals the record's.
ResetRejectedWitness ==
    /\ ResetEnded
    /\ err = "sameuuid"
    /\ pre[Cur.dev].sb[par.sb_idx].uuid # par.bdev_uuid
    /\ pre[Cur.dev].sb[par.sb_idx].set_uuid = par.set_uuid
    /\ dev = pre

(***************************************************************************)
(* C7.  A backing format whose data offset (given, or the default) is      *)
(* smaller than the space reserved for its N copies is rejected before any *)
(* write to the device; and every record a backing format writes stores a  *)
(* data_offset of at least the default data start plus N strides, so that  *)
(* no copy lies at or beyond the start of the data.                        *)
(***************************************************************************)
DataOffsetLeavesRoomForCopies ==
    /\ (FormatRun /\ par.data_offset < Reserved(par.sb_num)) =>
          /\ \A d \in Range(par.backing_devices) : dev[d] = pre[d]
          /\ par.backing_devices # <<>> => ~(pc = "exited" /\ err = "none")
    /\ (pc \in {"ws_secondary", "ws_close"} /\ Cur.bdev) =>
          \A i \in 0..(idx - 1) :
             /\ dev[Cur.dev].sb[i].magic
             /\ dev[Cur.dev].sb[i].data_offset >= Reserved(par.sb_num)
             /\ SB_OFFSET(i) + SB_SECTOR <= dev[Cur.dev].sb[i].data_offset

\* Three copies written, the last of them in front of the data.
DataOffsetWitness ==
    /\ pc = "ws_close"
    /\ Cur.bdev
    /\ par.sb_num = 3
    /\ idx = 3
    /\ dev[Cur.dev].sb[2].data_offset = Reserved(3)


(***************************************************************************)
(* C8.  get_parent_device returns the name without its trailing digits     *)
(* when the name ends in digits and /sys/block/<that>/<name>/ exists;      *)
(* otherwise the name without the digits and the 'p' before them when      *)
(* there is such a 'p' and /sys/block/<that>/<name>/ exists; otherwise no  *)
(* parent.  (No parent is the return value 0, which is also what an empty  *)
(* candidate amounts to.)                                                  *)
(***************************************************************************)
RECURSIVE TrailingDigits(_)
TrailingDigits(d) ==
    IF d # <<>> /\ d[Len(d)] \in {"0", "1", "2", "3", "4", "5", "6", "7", "8", "9"}
    THEN 1 + TrailingDigits(SubSeq(d, 1, Len(d) - 1)) ELSE 0

ClaimedParent(d, fs) ==
    LET k        == TrailingDigits(d)
        stripped == SubSeq(d, 1, Len(d) - k)
        hasP     == stripped # <<>> /\ stripped[Len(stripped)] = "p"
        pstrip   == SubSeq(stripped, 1, Len(stripped) - 1)
    IN  IF k > 0 /\ SysPath(stripped, d) \in fs THEN stripped
        ELSE IF k > 0 /\ hasP /\ SysPath(pstrip, d) \in fs THEN pstrip
        ELSE <<>>

ParentResolved ==
    gout # ParentNotCalled =>
        /\ gout.ret = Len(ClaimedParent(gdev, gfs))
        /\ gout.base = ClaimedParent(gdev, gfs)
        /\ (TrailingDigits(gdev) = 0 => gout.ret = 0)

\* nvme0n1p1 resolves to nvme0n1 through the p-stripped candidate.
ParentResolvedWitness ==
    /\ gout # ParentNotCalled
    /\ gdev = <<"n", "v", "m", "e", "0", "n", "1", "p", "1">>
    /\ SysPath(<<"n", "v", "m", "e", "0", "n", "1", "p">>, gdev) \notin gfs
    /\ gout.base = <<"n", "v", "m", "e", "0", "n", "1">>
    /\ gout.ret = 7

(***************************************************************************)
(* C9.  hatoi_validate accepts exactly the byte counts that are a power of *)
(* two of 1 to 32768 sectors and returns the sector count; the suffixes    *)
(* k, m, g, t (either case) multiply by 1024, 1024^2, 1024^3, 1024^4.      *)
(* Zero, values that are no power of two and values of more than 65535     *)
(* sectors are rejected.                                                   *)
(***************************************************************************)
ClaimedLevel(suf) ==
    IF suf = <<>> THEN 0
    ELSE IF suf[1] = "k" \/ suf[1] = "K" THEN 1
    ELSE IF suf[1] = "m" \/ suf[1] = "M" THEN 2
    ELSE IF suf[1] = "g" \/ suf[1] = "G" THEN 3
    ELSE IF suf[1] = "t" \/ suf[1] = "T" THEN 4
    ELSE 0

\* The exponents e with bytes = 2^e and 1 <= bytes / 512 <= USHRT_MAX.
AcceptedExp(x) ==
    { e \in 0..(MaxExp + 1) :
        /\ ~x.neg
        /\ x.n = Pow2(e)
        /\ e + 10 * ClaimedLevel(x.suf) >= 9
        /\ e + 10 * ClaimedLevel(x.suf) - 9 <= 15 }

HatoiValidateContract ==
    hout # HatoiNotCalled =>
        /\ hout.ok <=> AcceptedExp(hin) # {}
        /\ hout.ok => \A e \in AcceptedExp(hin) :
                         hout.v = Pow2(e + 10 * ClaimedLevel(hin.suf) - 9)
        /\ hout.ok => hout.v <= USHRT_MAX

\* "4k" is 8 sectors.
HatoiValidateWitness ==
    /\ hout.ok
    /\ ArgText(hin) = Arg4k
    /\ hout.v = 8

(***************************************************************************)
(* C10.  Round trip of a cache format: reading back the primary record of  *)
(* a cache device of capacity C formatted with block_size, bucket_size and *)
(* set_uuid yields exactly these and bucket_count = C / bucket_size        *)
(* (integer division); and a cache format gets to write only when that     *)
(* count is at least 128.                                                  *)
(***************************************************************************)
CacheFormatRoundTrip ==
    /\ (pc \in {"ws_journal", "ws_close"} /\ ~Cur.bdev) =>
          LET r == ReadSlot(dev[Cur.dev], 0)
          IN  /\ r.magic
              /\ r.bucket_size = par.bucket_size
              /\ r.block_size = par.block_size
              /\ r.set_uuid = par.set_uuid
              /\ r.nbuckets * par.bucket_size <= dev[Cur.dev].cap
              /\ dev[Cur.dev].cap < (r.nbuckets + 1) * par.bucket_size
              /\ r.nbuckets >= MinBuckets
    /\ (Formatting /\ pc # "ws_open" /\ ~Cur.bdev) =>
          dev[Cur.dev].cap >= MinBuckets * par.bucket_size

\* A device of exactly 128 buckets and a few sectors more.
CacheFormatWitness ==
    /\ pc = "ws_close"
    /\ ~Cur.bdev
    /\ dev[Cur.dev].sb[0].nbuckets = MinBuckets
    /\ dev[Cur.dev].cap > MinBuckets * par.bucket_size

(***************************************************************************)
(* C11.  The devices of one invocation are formatted strictly one after    *)
(* another, the cache devices in argument order and then the backing       *)
(* devices in argument order.  When the format of one device fails the run *)
(* stops there: every device formatted before it keeps its completed       *)
(* writes, and every device after it is as it was before the invocation.   *)
(***************************************************************************)
RunDevices == par.cache_devices \o par.backing_devices
\* A format that got past main's checks is under way or has ended.
BatchUnderWay ==
    /\ FormatRun
    /\ \/ Formatting
       \/ pc = "exited" /\ (queue # <<>> \/ err = "none")
\* The number of devices write_sb has returned for.
DevicesDone == Len(RunDevices) - Len(queue)
\* Everything a finished write_sb has written to device k of the run.
FormatCompleted(k) ==
    LET d    == RunDevices[k]
        bdev == k > Len(par.cache_devices)
        s    == BuildSb(par, bdev, pre[d])
    IN  /\ dev[d].hdr = Zeroes
        /\ dev[d].tag # Garbage
        /\ dev[d].sb[0] = s
        /\ bdev => \A i \in 1..(par.sb_num - 1) :
                     /\ ValidCsum(dev[d].sb[i])
                     /\ dev[d].sb[i].data_offset = s.data_offset
        /\ ~bdev => dev[d].journal = JournalRange(s)

DevicesFormattedInOrder ==
    BatchUnderWay =>
        /\ DevicesDone >= 0
        /\ queue = [j \in 1..Len(queue) |->
                      [dev  |-> RunDevices[DevicesDone + j],
                       bdev |-> DevicesDone + j > Len(par.cache_devices)]]
        /\ \A k \in 1..DevicesDone : FormatCompleted(k)
        /\ \A k \in (DevicesDone + 2)..Len(RunDevices) :
             dev[RunDevices[k]] = pre[RunDevices[k]]
        /\ \A d \in Devs \ Range(RunDevices) : dev[d] = pre[d]

\* The run stopped at its second device, after the first was formatted.
DevicesFormattedInOrderWitness ==
    /\ pc = "exited"
    /\ err # "none"
    /\ FormatRun
    /\ Len(RunDevices) = 2
    /\ Len(queue) = 1
    /\ FormatCompleted(1)
    /\ dev[RunDevices[1]] # pre[RunDevices[1]]

(***************************************************************************)
(* C12.  For every combination of the alcubierre (-A) and the              *)
(* skip-udev-register (-S) options, a successful format leaves bytes 0..9  *)
(* of every formatted device equal to the alcubierre tag when -A was given *)
(* (with or without -S), to the skip-registration tag when only -S was     *)
(* given, and to ten zero bytes when neither was given; a format writes at *)
(* most one of the two tags to a device, and the rest of the zeroed header *)
(* region stays zero.                                                      *)
(***************************************************************************)
\* Bytes 0..9 the claim gives for a command line.
ClaimedTag(o) ==
    IF o.A THEN TagAlcubierre ELSE IF o.S THEN TagSkipUdev ELSE Zeroes
\* The command lines that make this run: same devices, same locals of main.
MakesThisRun(o) ==
    /\ o.cache = par.cache_devices
    /\ o.backing = par.backing_devices
    /\ o.wipe = par.wipe_bcache
    /\ Main(o, pre).par = par

IdentityTagFollowsOptions ==
    /\ (pc = "exited" /\ err = "none" /\ FormatRun) =>
          \A o \in OptSpaceOf[used] :
             MakesThisRun(o) =>
                \A d \in Range(RunDevices) :
                   /\ dev[d].tag = ClaimedTag(o)
                   /\ dev[d].hdr = Zeroes
    /\ (Formatting /\ pc \notin {"ws_open", "ws_zero"}) =>
          /\ dev[Cur.dev].hdr = Zeroes
          /\ IF pc = "ws_tag" THEN dev[Cur.dev].tag = Zeroes
             ELSE \/ dev[Cur.dev].tag = Zeroes
                     /\ ~par.alcubierre_dev /\ ~par.skip_udev_register
                  \/ dev[Cur.dev].tag = TagAlcubierre /\ par.alcubierre_dev
                  \/ dev[Cur.dev].tag = TagSkipUdev
                     /\ ~par.alcubierre_dev /\ par.skip_udev_register

\* A format with -A (which sets both flags) has ended on a device that
\* carried the skip-registration tag before.
IdentityTagWitness ==
    /\ pc = "exited"
    /\ err = "none"
    /\ FormatRun
    /\ par.alcubierre_dev /\ par.skip_udev_register
    /\ \E d \in Range(RunDevices) :
         /\ pre[d].tag = TagSkipUdev
         /\ dev[d].tag = TagAlcubierre

====
